---- MODULE Spec2Model ----
(***************************************************************************)
(* Model of create_provenance.go: the SLSA provenance generator.  One run  *)
(* of main() is a sequence of steps: parseFlags, the ancestor loop and the *)
(* stat loop of subjects(), the filepath.Walk of subjects(), the           *)
(* construction of the Statement from the two context blobs, the echo and  *)
(* the write of the output file.  Paths are strings and are handled by     *)
(* operators that follow path/filepath on Linux (the Dockerfile builds for *)
(* Linux); the filesystem is a map from canonical paths to nodes; a JSON   *)
(* text is the tree of values it denotes, the serialized document is the   *)
(* compact JSON text (MarshalIndent's whitespace is left out).             *)
(***************************************************************************)
EXTENDS Integers, Sequences, FiniteSets, TLC

\* ------------------------------------------------------------------------
\* Bounds of the model
\* ------------------------------------------------------------------------
\* cap on the length of the ancestor list built by the loop of subjects()
MaxParents == 5
\* number of invocations of the program over the same inputs
MaxRuns == 2
\* symbolic links followed in one path resolution before ELOOP
MaxSymlinks == 3

\* ------------------------------------------------------------------------
\* Strings
\* ------------------------------------------------------------------------
Char(s, i) == SubSeq(s, i, i)

\* the bytes the model's strings are made of, in byte order
Ascii == "\"-./0123456789:@ABCDEFGHIJKLMNOPQRSTUVWXYZ_abcdefghijklmnopqrstuvwxyz{}"

Rank(c) == CHOOSE i \in 1..Len(Ascii) : Char(Ascii, i) = c

RECURSIVE StrLessFrom(_, _, _)
StrLessFrom(a, b, i) ==
    IF i > Len(b) THEN FALSE
    ELSE IF i > Len(a) THEN TRUE
    ELSE IF Char(a, i) = Char(b, i) THEN StrLessFrom(a, b, i + 1)
    ELSE Rank(Char(a, i)) < Rank(Char(b, i))

\* a < b on Go strings (bytewise)
StrLess(a, b) == StrLessFrom(a, b, 1)

\* strings.Contains(s, sub)
Contains(s, sub) ==
    \E i \in 1..(Len(s) - Len(sub) + 1) : SubSeq(s, i, i + Len(sub) - 1) = sub

HasPrefix(s, p) == Len(s) >= Len(p) /\ SubSeq(s, 1, Len(p)) = p

\* index of the last "/" of s, 0 when there is none
LastSlash(s) ==
    LET I == {i \in 1..Len(s) : Char(s, i) = "/"}
    IN  IF I = {} THEN 0 ELSE CHOOSE i \in I : \A j \in I : j <= i

RECURSIVE FieldsFrom(_, _, _)
FieldsFrom(s, i, cur) ==
    IF i > Len(s) THEN <<cur>>
    ELSE IF Char(s, i) = "/" THEN <<cur>> \o FieldsFrom(s, i + 1, "")
    ELSE FieldsFrom(s, i + 1, cur \o Char(s, i))

\* the pieces of s between its slashes, empty pieces included
Fields(s) == FieldsFrom(s, 1, "")

RECURSIVE JoinSlash(_)
JoinSlash(q) ==
    IF q = <<>> THEN ""
    ELSE IF Len(q) = 1 THEN q[1]
    ELSE q[1] \o "/" \o JoinSlash(Tail(q))

Front(q) == SubSeq(q, 1, Len(q) - 1)

\* ------------------------------------------------------------------------
\* path/filepath (Unix)
\* ------------------------------------------------------------------------
IsAbs(path) == HasPrefix(path, "/")

\* filepath.Split: the directory part (with its trailing slash) and the file
Split(path) ==
    LET i == LastSlash(path)
    IN  [dir |-> SubSeq(path, 1, i), file |-> SubSeq(path, i + 1, Len(path))]

RECURSIVE CleanElems(_, _, _)
CleanElems(elems, out, rooted) ==
    IF elems = <<>> THEN out
    ELSE LET e == Head(elems)
             rest == Tail(elems)
         IN  IF e = "" \/ e = "." THEN CleanElems(rest, out, rooted)
             ELSE IF e = ".."
                  THEN IF out # <<>> /\ out[Len(out)] # ".."
                       THEN CleanElems(rest, Front(out), rooted)
                       ELSE IF rooted THEN CleanElems(rest, out, rooted)
                       ELSE CleanElems(rest, Append(out, ".."), rooted)
             ELSE CleanElems(rest, Append(out, e), rooted)

\* the elements of the cleaned path
CleanList(path) == CleanElems(Fields(path), <<>>, IsAbs(path))

\* filepath.Clean
Clean(path) ==
    LET out == CleanList(path)
    IN  IF IsAbs(path) THEN "/" \o JoinSlash(out)
        ELSE IF out = <<>> THEN "."
        ELSE JoinSlash(out)

RECURSIVE StripSlashes(_)
StripSlashes(path) ==
    IF Len(path) > 0 /\ Char(path, Len(path)) = "/"
    THEN StripSlashes(SubSeq(path, 1, Len(path) - 1))
    ELSE path

\* filepath.Base
Base(path) ==
    IF path = "" THEN "."
    ELSE LET p == StripSlashes(path)
             q == SubSeq(p, LastSlash(p) + 1, Len(p))
         IN  IF q = "" THEN "/" ELSE q

\* filepath.Join of a directory and a name
Join(dir, name) == Clean(dir \o "/" \o name)

RECURSIVE CommonLen(_, _)
CommonLen(a, b) ==
    IF a = <<>> \/ b = <<>> \/ Head(a) # Head(b) THEN 0
    ELSE 1 + CommonLen(Tail(a), Tail(b))

\* filepath.Rel: [err, path]
Rel(basepath, targpath) ==
    LET base == CleanList(basepath)
        targ == CleanList(targpath)
        k == CommonLen(base, targ)
        up == [i \in 1..(Len(base) - k) |-> ".."]
        down == SubSeq(targ, k + 1, Len(targ))
    IN  IF Clean(basepath) = Clean(targpath) THEN [err |-> "", path |-> "."]
        ELSE IF IsAbs(basepath) # IsAbs(targpath)
             THEN [err |-> "Rel: can't make " \o targpath \o " relative to " \o basepath,
                   path |-> ""]
        ELSE IF SubSeq(base, k + 1, Len(base)) = <<"..">>
             THEN [err |-> "Rel: can't make " \o targpath \o " relative to " \o basepath,
                   path |-> ""]
        ELSE [err |-> "", path |-> JoinSlash(up \o down)]

\* ------------------------------------------------------------------------
\* The filesystem: canonical path (sequence of names from "/") -> node
\* ------------------------------------------------------------------------
Dir == [kind |-> "dir", data |-> ""]
File(content) == [kind |-> "file", data |-> content]
Link(target) == [kind |-> "link", data |-> target]

\* the working directory of the process
Cwd == <<"w">>

ENOENT == "no such file or directory"
ENOTDIR == "not a directory"
ELOOP == "too many levels of symbolic links"
EINVAL == "invalid argument"
EISDIR == "is a directory"

RECURSIVE ResolveFrom(_, _, _, _, _)
ResolveFrom(fs, cur, comps, follow, budget) ==
    IF comps = <<>> THEN [err |-> "", at |-> cur]
    ELSE LET c == Head(comps)
             rest == Tail(comps)
             nxt == Append(cur, c)
         IN  IF fs[cur].kind # "dir" THEN [err |-> ENOTDIR, at |-> cur]
             ELSE IF c = "" \/ c = "." THEN ResolveFrom(fs, cur, rest, follow, budget)
             ELSE IF c = ".."
                  THEN ResolveFrom(fs, IF cur = <<>> THEN cur ELSE Front(cur),
                                   rest, follow, budget)
             ELSE IF nxt \notin DOMAIN fs THEN [err |-> ENOENT, at |-> cur]
             ELSE IF fs[nxt].kind = "link" /\ (rest # <<>> \/ follow)
                  THEN IF budget = 0 THEN [err |-> ELOOP, at |-> cur]
                       ELSE ResolveFrom(fs,
                                IF IsAbs(fs[nxt].data) THEN <<>> ELSE cur,
                                Fields(fs[nxt].data) \o rest, follow, budget - 1)
             ELSE ResolveFrom(fs, nxt, rest, follow, budget)

\* the kernel's path resolution, from "/" or from the working directory;
\* follow says whether a symbolic link in the last position is followed
Resolve(fs, path, follow) ==
    IF path = "" THEN [err |-> ENOENT, at |-> Cwd]
    ELSE ResolveFrom(fs, IF IsAbs(path) THEN <<>> ELSE Cwd, Fields(path),
                     follow, MaxSymlinks)

\* os.Stat: [err, kind]
Stat(fs, path) ==
    LET r == Resolve(fs, path, TRUE)
    IN  IF r.err # "" THEN [err |-> "stat " \o path \o ": " \o r.err, notExist |-> r.err = ENOENT,
                            kind |-> ""]
        ELSE [err |-> "", notExist |-> FALSE, kind |-> fs[r.at].kind]

\* os.Lstat: [err, kind]
Lstat(fs, path) ==
    LET r == Resolve(fs, path, FALSE)
    IN  IF r.err # "" THEN [err |-> "lstat " \o path \o ": " \o r.err, notExist |-> r.err = ENOENT,
                            kind |-> ""]
        ELSE [err |-> "", notExist |-> FALSE, kind |-> fs[r.at].kind]

\* os.Readlink: [err, path]
Readlink(fs, path) ==
    LET r == Resolve(fs, path, FALSE)
    IN  IF r.err # "" THEN [err |-> "readlink " \o path \o ": " \o r.err, path |-> ""]
        ELSE IF fs[r.at].kind # "link"
             THEN [err |-> "readlink " \o path \o ": " \o EINVAL, path |-> ""]
        ELSE [err |-> "", path |-> fs[r.at].data]

\* ioutil.ReadFile: [err, contents]
ReadFile(fs, path) ==
    LET r == Resolve(fs, path, TRUE)
    IN  IF r.err # "" THEN [err |-> "open " \o path \o ": " \o r.err, contents |-> ""]
        ELSE IF fs[r.at].kind = "dir"
             THEN [err |-> "read " \o path \o ": " \o EISDIR, contents |-> ""]
        ELSE [err |-> "", contents |-> fs[r.at].data]

\* the names in the directory at canonical path d
Children(fs, d) ==
    {p[Len(p)] : p \in {q \in DOMAIN fs : Len(q) = Len(d) + 1 /\ Front(q) = d}}

RECURSIVE Listing(_, _)
\* the order in which the kernel hands out the names of a directory: it is
\* no order the program chooses, ord picks one of two
Listing(names, ord) ==
    IF names = {} THEN <<>>
    ELSE LET n == IF ord = "asc"
                  THEN CHOOSE x \in names : \A y \in names : x = y \/ StrLess(x, y)
                  ELSE CHOOSE x \in names : \A y \in names : x = y \/ StrLess(y, x)
         IN  <<n>> \o Listing(names \ {n}, ord)

RECURSIVE Insert(_, _)
Insert(sorted, x) ==
    IF sorted = <<>> THEN <<x>>
    ELSE IF StrLess(x, Head(sorted)) THEN <<x>> \o sorted
    ELSE <<Head(sorted)>> \o Insert(Tail(sorted), x)

SortUnsorted(names) == names

RECURSIVE SortStrings(_)
\* sort.Strings
SortStrings(names) ==
    IF names = <<>> THEN <<>>
    ELSE Insert(SortStrings(Front(names)), names[Len(names)])

\* filepath.readDirNames: the names of the directory, sorted
readDirNames(fs, ord, path) ==
    SortStrings(Listing(Children(fs, Resolve(fs, path, TRUE).at), ord))

\* ------------------------------------------------------------------------
\* subjects(): the walk
\* ------------------------------------------------------------------------
\* sha256.Sum256 and hex.EncodeToString, as an injective function of the
\* contents
Sha256Hex(contents) == "sha256(" \o contents \o ")"

Subject(name, contents) == [name |-> name, digest |-> Sha256Hex(contents)]

SubjectNameAsRel(root, relpath) == relpath

SubjectNameAsBase(root, relpath) == Base(IF relpath = "." THEN root ELSE relpath)

\* the name given to the file at relpath (lines 150-153)
SubjectName(root, relpath) == IF relpath = "." THEN Base(root) ELSE relpath

\* whether the callback goes on to hash an entry of this kind (line 143)
EmitsSubject(kind) == kind # "dir"

\* the callback handed to filepath.Walk; acc is [s, err, reads]
WalkFn(fs, root, abspath, kind, acc) ==
    IF ~EmitsSubject(kind) THEN acc
    ELSE LET rel == Rel(root, abspath)
             rd == ReadFile(fs, abspath)
         IN  IF rel.err # "" THEN [acc EXCEPT !.err = rel.err]
             ELSE IF rd.err # ""
                  THEN [acc EXCEPT !.err = rd.err, !.reads = acc.reads + 1]
             ELSE [s |-> Append(acc.s, Subject(SubjectName(root, rel.path), rd.contents)),
                   err |-> "",
                   reads |-> acc.reads + 1]

RECURSIVE walk(_, _, _, _, _, _)
RECURSIVE walkNames(_, _, _, _, _, _)
\* filepath.walk
walk(fs, ord, root, path, kind, acc) ==
    IF kind # "dir" THEN WalkFn(fs, root, path, kind, acc)
    ELSE walkNames(fs, ord, root, path, readDirNames(fs, ord, path), acc)

walkNames(fs, ord, root, path, names, acc) ==
    IF names = <<>> THEN acc
    ELSE LET filename == Join(path, Head(names))
             info == Lstat(fs, filename)
             got == walk(fs, ord, root, filename, info.kind, acc)
         IN  IF info.err # "" THEN [acc EXCEPT !.err = info.err]
             ELSE IF got.err # "" THEN got
             ELSE walkNames(fs, ord, root, path, Tail(names), got)

\* filepath.Walk(root, fn) as subjects() calls it; the s of "return s,
\* filepath.Walk(...)" is read once the call has returned, as the gc
\* compiler orders it
Walk(fs, ord, root) ==
    LET info == Lstat(fs, root)
        acc == [s |-> <<>>, err |-> "", reads |-> 0]
    IN  IF info.err # "" THEN [acc EXCEPT !.err = info.err]
        ELSE walk(fs, ord, root, root, info.kind, acc)

\* ------------------------------------------------------------------------
\* subjects(): the ancestor check
\* ------------------------------------------------------------------------
\* the result of the stat loop over parents (lines 128-136): the error of
\* the first parent that cannot be stat'ed, "" when there is none
RECURSIVE CheckFrom(_, _, _)
CheckFrom(fs, ps, i) ==
    IF i > Len(ps) THEN ""
    ELSE LET st == Stat(fs, ps[i])
             ln == Readlink(fs, ps[i])
         IN  IF st.err = "" THEN CheckFrom(fs, ps, i + 1)
             ELSE IF ln.path # "" /\ st.notExist
                  THEN "stat " \o ps[i] \o ": broken symlink"
             ELSE st.err

\* ------------------------------------------------------------------------
\* JSON texts, as the values they denote
\* ------------------------------------------------------------------------
\* A member of an object is [k, v].  A value inside the event payload is
\* [t, s]: its type and, for a string, the string, for any other type its
\* text.  A value of a context blob is [t, s, m], m the members of an
\* object.  A blob is [syntax, t, m]; syntax "empty" is the empty string,
\* "malformed" a text that is no JSON.
LStr(s) == [t |-> "str", s |-> s]
LNull == [t |-> "null", s |-> "null"]
LObj(text) == [t |-> "obj", s |-> text]
\* a nil json.RawMessage
NilRaw == [t |-> "nil", s |-> ""]

JStr(s) == [t |-> "str", s |-> s, m |-> <<>>]
JNum(text) == [t |-> "num", s |-> text, m |-> <<>>]
JNull == [t |-> "null", s |-> "null", m |-> <<>>]
JObj(members) == [t |-> "obj", s |-> "", m |-> members]
JNil == [t |-> "nil", s |-> "", m |-> <<>>]

Member(k, v) == [k |-> k, v |-> v]

Blob(members) == [syntax |-> "ok", t |-> "obj", m |-> members]
EmptyBlob == [syntax |-> "empty", t |-> "", m |-> <<>>]
MalformedBlob == [syntax |-> "malformed", t |-> "", m |-> <<>>]
NullBlob == [syntax |-> "ok", t |-> "null", m |-> <<>>]
ArrayBlob == [syntax |-> "ok", t |-> "arr", m |-> <<>>]

\* a JSON string literal (the model's strings hold no byte that is escaped)
Quote(s) == "\"" \o s \o "\""

\* the JSON text of a value of the event payload
RawLeaf(l) == IF l.t = "str" THEN Quote(l.s) ELSE l.s

\* the JSON key of each field of GitHubContext that the model keeps
GitHubFields ==
    [repository |-> "Repository", run_id |-> "RunId", sha |-> "SHA",
     token |-> "Token", workflow |-> "Workflow", event |-> "Event"]

\* the JSON key of each field of RunnerContext
RunnerFields == [os |-> "OS", temp |-> "Temp", tool_cache |-> "ToolCache"]

GitHubContextZero ==
    [Repository |-> "", RunId |-> "", SHA |-> "", Token |-> "", Workflow |-> "",
     Event |-> JNil]

RunnerContextZero == [OS |-> "", Temp |-> "", ToolCache |-> ""]

RECURSIVE DecodeMembers(_, _, _)
\* the object decoder of encoding/json on a struct: members in order, a
\* later member of the same key overwrites; an unknown key is skipped; a
\* value of the wrong type leaves the field alone and is remembered as the
\* error, the first one wins; null leaves a string field alone
DecodeMembers(ms, fields, acc) ==
    IF ms = <<>> THEN acc
    ELSE LET k == Head(ms).k
             v == Head(ms).v
             f == fields[k]
         IN  IF k \notin DOMAIN fields THEN DecodeMembers(Tail(ms), fields, acc)
             ELSE IF f = "Event"
                  THEN DecodeMembers(Tail(ms), fields,
                                     [acc EXCEPT !.val = [acc.val EXCEPT ![f] = v]])
             ELSE IF v.t = "str"
                  THEN DecodeMembers(Tail(ms), fields,
                                     [acc EXCEPT !.val = [acc.val EXCEPT ![f] = v.s]])
             ELSE IF v.t = "null" THEN DecodeMembers(Tail(ms), fields, acc)
             ELSE DecodeMembers(Tail(ms), fields,
                      [acc EXCEPT !.err =
                          IF acc.err # "" THEN acc.err
                          ELSE "json: cannot unmarshal " \o v.t \o " into Go struct field ."
                               \o k \o " of type string"])

UnmarshalLenient(blob, fields, zero) ==
    IF blob.syntax = "ok" /\ blob.t = "obj"
    THEN [DecodeMembers(blob.m, fields, [err |-> "", val |-> zero]) EXCEPT !.err = ""]
    ELSE [err |-> "", val |-> zero]

\* json.Unmarshal(data, &struct): [err, val]
Unmarshal(blob, fields, zero) ==
    IF blob.syntax = "empty" THEN [err |-> "unexpected end of JSON input", val |-> zero]
    ELSE IF blob.syntax = "malformed"
         THEN [err |-> "invalid character looking for beginning of value", val |-> zero]
    ELSE IF blob.t = "null" THEN [err |-> "", val |-> zero]
    ELSE IF blob.t # "obj"
         THEN [err |-> "json: cannot unmarshal " \o blob.t \o " into Go value",
               val |-> zero]
    ELSE DecodeMembers(blob.m, fields, [err |-> "", val |-> zero])

RECURSIVE DecodeInputs(_, _)
DecodeInputs(ms, inputs) ==
    IF ms = <<>> THEN inputs
    ELSE IF Head(ms).k = "inputs" THEN DecodeInputs(Tail(ms), Head(ms).v)
    ELSE DecodeInputs(Tail(ms), inputs)

\* json.Unmarshal(context.GitHubContext.Event, &event): [err, Inputs]
UnmarshalEvent(raw) ==
    IF raw.t = "nil" THEN [err |-> "unexpected end of JSON input", Inputs |-> NilRaw]
    ELSE IF raw.t = "null" THEN [err |-> "", Inputs |-> NilRaw]
    ELSE IF raw.t # "obj"
         THEN [err |-> "json: cannot unmarshal " \o raw.t \o " into Go value of type main.AnyEvent",
               Inputs |-> NilRaw]
    ELSE [err |-> "", Inputs |-> DecodeInputs(raw.m, NilRaw)]

\* ------------------------------------------------------------------------
\* The Statement and its serialization
\* ------------------------------------------------------------------------
GitHubHostedIdSuffix == "/Attestations/GitHubHostedActions@v1"
SelfHostedIdSuffix == "/Attestations/SelfHostedActions@v1"
TypeId == "https://github.com/Attestations/GitHubActionsWorkflow@v1"

\* time.Time.UTC().Format(time.RFC3339) of the instant t seconds into the day
RFC3339(t) == "2021-06-01T00:00:0" \o Char("0123456789", t + 1) \o "Z"

\* the Statement of line 191
NewStatement ==
    [Type |-> "https://in-toto.io/Statement/v0.1",
     Subject |-> <<>>,
     PredicateType |-> "https://in-toto.io/Provenance/v0.1",
     Predicate |->
        [Builder |-> [Id |-> ""],
         Metadata |-> [BuildInvocationId |-> "",
                       Completeness |-> [Arguments |-> FALSE, Environment |-> FALSE,
                                         Materials |-> FALSE],
                       Reproducible |-> FALSE,
                       BuildFinishedOn |-> ""],
         Recipe |-> [Type |-> "", DefinedInMaterial |-> 0, EntryPoint |-> "",
                     Arguments |-> NilRaw, Environment |-> "nil"],
         Materials |-> <<>>]]

\* the Predicate of lines 198-214
NewPredicate(now) ==
    [Builder |-> [Id |-> ""],
     Metadata |-> [BuildInvocationId |-> "",
                   Completeness |-> [Arguments |-> TRUE, Environment |-> FALSE,
                                     Materials |-> FALSE],
                   Reproducible |-> FALSE,
                   BuildFinishedOn |-> RFC3339(now)],
     Recipe |-> [Type |-> TypeId, DefinedInMaterial |-> 0, EntryPoint |-> "",
                 Arguments |-> NilRaw, Environment |-> "nil"],
     Materials |-> <<>>]

RepoURIWithToken(gh) == "https://" \o gh.Token \o "@github.com/" \o gh.Repository

\* line 227
RepoURI(gh) == "https://github.com/" \o gh.Repository

BuilderIdSwapped(repoURI, hosted) ==
    IF hosted = "true" THEN repoURI \o SelfHostedIdSuffix
    ELSE repoURI \o GitHubHostedIdSuffix

\* lines 238-242; hosted is os.Getenv("GITHUB_ACTIONS")
BuilderId(repoURI, hosted) ==
    IF hosted = "true" THEN repoURI \o GitHubHostedIdSuffix
    ELSE repoURI \o SelfHostedIdSuffix

ArgumentsWholeEvent(raw, event) ==
    IF raw.t = "obj" /\ raw.m # <<>> THEN raw.m[1].v ELSE event.Inputs

\* line 236: what becomes Recipe.Arguments, given the raw event and the
\* decoded AnyEvent
Arguments(raw, event) == event.Inputs

\* lines 223-242 on a Predicate, after the event has been decoded
FillPredicate(p, gh, raw, event, hosted) ==
    [p EXCEPT
        !.Metadata.BuildInvocationId = RepoURI(gh) \o "/actions/runs/" \o gh.RunId,
        !.Recipe.EntryPoint = gh.Workflow,
        !.Recipe.Arguments = Arguments(raw, event),
        !.Materials = Append(p.Materials,
                             [URI |-> "git+" \o RepoURI(gh), Digest |-> [sha1 |-> gh.SHA]]),
        !.Builder.Id = BuilderId(RepoURI(gh), hosted)]

Bool(b) == IF b THEN "true" ELSE "false"

\* a json.RawMessage field: a nil one is written as null
MarshalRaw(raw) == IF raw.t = "nil" THEN "null" ELSE RawLeaf(raw)

MarshalSubject(sub) ==
    "{" \o Quote("name") \o ":" \o Quote(sub.name) \o "," \o Quote("digest") \o ":{"
        \o Quote("sha256") \o ":" \o Quote(sub.digest) \o "}}"

MarshalItem(item) ==
    "{" \o Quote("uri") \o ":" \o Quote(item.URI) \o "," \o Quote("digest") \o ":{"
        \o Quote("sha1") \o ":" \o Quote(item.Digest.sha1) \o "}}"

RECURSIVE MarshalList(_, _)
MarshalList(texts, i) ==
    IF i > Len(texts) THEN ""
    ELSE (IF i > 1 THEN "," ELSE "") \o texts[i] \o MarshalList(texts, i + 1)

\* stmt.Subject is a nil slice until something is appended to it
MarshalSubjects(subs) ==
    IF subs = <<>> THEN "null"
    ELSE "[" \o MarshalList([i \in 1..Len(subs) |-> MarshalSubject(subs[i])], 1) \o "]"

\* stmt.Predicate.Materials starts as []Item{}
MarshalMaterials(items) ==
    "[" \o MarshalList([i \in 1..Len(items) |-> MarshalItem(items[i])], 1) \o "]"

\* json.Marshal(stmt): the fields in the order of their declaration
Marshal(st) ==
    LET p == st.Predicate
        md == p.Metadata
        r == p.Recipe
    IN  "{" \o Quote("_type") \o ":" \o Quote(st.Type)
        \o "," \o Quote("subject") \o ":" \o MarshalSubjects(st.Subject)
        \o "," \o Quote("predicateType") \o ":" \o Quote(st.PredicateType)
        \o "," \o Quote("predicate") \o ":{"
        \o Quote("builder") \o ":{" \o Quote("id") \o ":" \o Quote(p.Builder.Id) \o "}"
        \o "," \o Quote("metadata") \o ":{"
            \o Quote("buildInvocationId") \o ":" \o Quote(md.BuildInvocationId)
            \o "," \o Quote("completeness") \o ":{"
                \o Quote("arguments") \o ":" \o Bool(md.Completeness.Arguments)
                \o "," \o Quote("environment") \o ":" \o Bool(md.Completeness.Environment)
                \o "," \o Quote("materials") \o ":" \o Bool(md.Completeness.Materials) \o "}"
            \o "," \o Quote("reproducible") \o ":" \o Bool(md.Reproducible)
            \o "," \o Quote("buildFinishedOn") \o ":" \o Quote(md.BuildFinishedOn) \o "}"
        \o "," \o Quote("recipe") \o ":{"
            \o Quote("type") \o ":" \o Quote(r.Type)
            \o "," \o Quote("definedInMaterial") \o ":0"
            \o "," \o Quote("entryPoint") \o ":" \o Quote(r.EntryPoint)
            \o "," \o Quote("arguments") \o ":" \o MarshalRaw(r.Arguments)
            \o "," \o Quote("environment") \o ":"
                \o (IF r.Environment = "nil" THEN "null" ELSE "{}") \o "}"
        \o "," \o Quote("materials") \o ":" \o MarshalMaterials(p.Materials)
        \o "}}"

\* ------------------------------------------------------------------------
\* Inputs
\* ------------------------------------------------------------------------
\* largest instant time.Now() returns, in seconds
MaxClock == 1

Clock == 0..MaxClock

\* the filesystem: /w is the working directory; /w/d is a symbolic link to
\* linkD; /w/e is a directory whose entry b is of kind kindB and whose
\* sub-directory s has depthS levels below it (0: there is no s)
MkFS(linkD, kindB, depthS) ==
    (<<>> :> Dir) @@ (<<"w">> :> Dir)
    @@ (<<"w", "f">> :> File("x"))
    @@ (<<"w", "lf">> :> Link("f"))
    @@ (<<"w", "d">> :> Link(linkD))
    @@ (<<"w", "art">> :> Dir)
    @@ (<<"w", "art", "out.bin">> :> File("known"))
    @@ (<<"w", "e">> :> Dir)
    @@ (<<"w", "e", "a">> :> File("x"))
    @@ (IF kindB = "file" THEN <<"w", "e", "b">> :> File("y")
        ELSE IF kindB = "linkfile" THEN <<"w", "e", "b">> :> Link("a")
        ELSE IF kindB = "linkdir" THEN <<"w", "e", "b">> :> Link("s")
        ELSE IF kindB = "dangling" THEN <<"w", "e", "b">> :> Link("nx")
        ELSE <<>>)
    @@ (IF depthS >= 1 THEN <<"w", "e", "s">> :> Dir ELSE <<>>)
    @@ (IF depthS >= 2 THEN <<"w", "e", "s", "c">> :> File("y") ELSE <<>>)
    @@ (IF depthS >= 3
        THEN (<<"w", "e", "s", "B">> :> Dir) @@ (<<"w", "e", "s", "B", "z">> :> File("x"))
        ELSE <<>>)

FileSystems ==
    {MkFS(linkD, kindB, depthS) :
        linkD \in {"e", "nx"},
        kindB \in {"none", "file", "linkfile", "linkdir", "dangling"},
        depthS \in 0..3}

BaseFS == MkFS("e", "file", 2)

\* values of --artifact_path that lead into the directory /w/e
TreeRoots ==
    {"e", "e/", "./e", "e/s", "e/a", "e/b", "d", "d/", "d/s", "d/a", "/w/e", "/w/d/a"}

\* values of --artifact_path that do not
FileRoots == {"f", "./f", "lf", "d/../f", "/w/f", "nx"}

Tokens == {"ghs_T1", "ghs_T2"}

Events ==
    {JNil, JNull, JStr("push"), JObj(<<>>),
     JObj(<<Member("ref", LStr("refs_x"))>>),
     JObj(<<Member("inputs", LObj("{\"k\":\"v\"}"))>>),
     JObj(<<Member("ref", LStr("refs_x")), Member("inputs", LObj("{\"k\":\"v\"}"))>>),
     JObj(<<Member("inputs", LStr("in1")), Member("ref", LStr("refs_x"))>>),
     JObj(<<Member("inputs", LNull)>>)}

\* a github context: the members every workflow run has, the token when
\* tok is not "-", the event when it is not nil
GitHubBlob(repo, runId, tok, ev) ==
    Blob(<<Member("repository", JStr(repo)), Member("sha", JStr("abc123")),
           Member("run_id", runId), Member("workflow", JStr("CI")),
           Member("actor", JStr("me"))>>
         \o (IF tok = "-" THEN <<>> ELSE <<Member("token", JStr(tok))>>)
         \o (IF ev.t = "nil" THEN <<>> ELSE <<Member("event", ev)>>))

BaseGitHub == GitHubBlob("o/r", JStr("7"), "ghs_T1", JObj(<<>>))

\* a context that carries no token
PlainGitHub == GitHubBlob("o/r", JStr("7"), "-", JObj(<<>>))

GitHubBlobs ==
    {GitHubBlob("o/r", JStr("7"), tok, ev) : tok \in Tokens \cup {"-", ""}, ev \in Events}
    \cup {GitHubBlob(repo, JStr("7"), "ghs_T1",
                     JObj(<<Member("inputs", LObj("{\"k\":\"v\"}"))>>)) : repo \in {"x/y"}}
    \cup {GitHubBlob("o/r", JNum("7"), "ghs_T1", JObj(<<>>))}
    \cup {EmptyBlob, MalformedBlob, NullBlob, ArrayBlob}

\* the context blob of the end-to-end scenario, and the same with an event
ScenarioGitHub ==
    Blob(<<Member("repository", JStr("o/r")), Member("sha", JStr("abc123")),
           Member("run_id", JStr("7")), Member("workflow", JStr("CI"))>>)

ScenarioWithEvent == [ScenarioGitHub EXCEPT !.m = Append(@, Member("event", JObj(<<>>)))]

BaseRunner == Blob(<<Member("os", JStr("Linux"))>>)

RunnerBlobs ==
    {BaseRunner, Blob(<<Member("os", JNum("5"))>>), EmptyBlob, MalformedBlob, NullBlob}

\* values of the environment variable GITHUB_ACTIONS ("" is unset)
HostedSignals == {"true", "false", "", "TRUE"}

Flags(root, out, gh, runner) ==
    [artifact_path |-> root, output_path |-> out, github_context |-> gh,
     runner_context |-> runner]

\* the command lines, environments and filesystems the runs start from:
\* every filesystem and root with base contexts, and every context with the
\* base filesystem
InputCases ==
    {[args |-> Flags(root, "build.provenance", PlainGitHub, BaseRunner),
      env |-> "true", fs |-> fs] : root \in TreeRoots, fs \in FileSystems}
    \cup {[args |-> Flags(root, "build.provenance", PlainGitHub, BaseRunner),
           env |-> "true", fs |-> MkFS(linkD, "file", 2)] :
              root \in FileRoots, linkD \in {"e", "nx"}}
    \cup {[args |-> Flags(root, "build.provenance", gh, BaseRunner),
           env |-> hosted, fs |-> BaseFS] :
              root \in {"e", "f"}, gh \in GitHubBlobs, hosted \in {"true", "false"}}
    \cup {[args |-> Flags("e", out, gh, runner), env |-> hosted, fs |-> BaseFS] :
              out \in {"build.provenance", ""},
              gh \in {BaseGitHub, GitHubBlob("x/y", JStr("7"), "-", JObj(<<>>))},
              runner \in RunnerBlobs, hosted \in HostedSignals}
    \cup {[args |-> Flags("art", "build.provenance", gh, BaseRunner),
           env |-> "true", fs |-> BaseFS] : gh \in {ScenarioGitHub, ScenarioWithEvent}}
    \cup {[args |-> Flags("", "build.provenance", BaseGitHub, BaseRunner),
           env |-> "true", fs |-> BaseFS]}

\* the blob with the value of its token member replaced
WithToken(blob, tok) ==
    [blob EXCEPT !.m = [i \in 1..Len(blob.m) |->
        IF blob.m[i].k = "token" THEN Member("token", JStr(tok)) ELSE blob.m[i]]]

HasToken(blob) ==
    \E i \in 1..Len(blob.m) : blob.m[i].k = "token" /\ blob.m[i].v.s # ""

\* ------------------------------------------------------------------------
\* State
\* ------------------------------------------------------------------------
VARIABLES
    args,       \* the four flags
    env,        \* the value of GITHUB_ACTIONS
    fsys,       \* the filesystem the artifacts are in
    pc,         \* where main() is
    parents,    \* subjects(): the ancestor list
    subs,       \* what subjects() returned
    reads,      \* the files subjects() has read so far
    stmt,       \* main(): stmt
    context,    \* main(): context
    gh,         \* main(): gh, the copy of context.GitHubContext
    payload,    \* main(): payload
    stdout,     \* what the process has printed
    outfile,    \* the writes to the output path: a sequence of contents
    exitCode,   \* the exit status, -1 while the process runs
    passed,     \* the stages of main() this run has completed
    run,        \* the number of this invocation
    history     \* the invocation before this one, when there is one

vars == <<args, env, fsys, pc, parents, subs, reads, stmt, context, gh, payload,
          stdout, outfile, exitCode, passed, run, history>>

AnyContextZero == [GitHubContext |-> GitHubContextZero, RunnerContext |-> RunnerContextZero]

\* the state of a process at its start
Start ==
    /\ pc = "parseFlags"
    /\ parents = <<>>
    /\ subs = <<>>
    /\ reads = 0
    /\ stmt = NewStatement
    /\ context = AnyContextZero
    /\ gh = GitHubContextZero
    /\ payload = ""
    /\ stdout = <<>>
    /\ outfile = <<>>
    /\ exitCode = -1
    /\ passed = {}

Init ==
    /\ \E c \in InputCases : args = c.args /\ env = c.env /\ fsys = c.fs
    /\ Start
    /\ run = 1
    /\ history = <<>>

\* os.Exit(code) after printing msgs; a panic is an exit with status 2
Exit(code, msgs) ==
    /\ pc' = "exited"
    /\ exitCode' = code
    /\ stdout' = stdout \o msgs

\* ------------------------------------------------------------------------
\* main()
\* ------------------------------------------------------------------------
MissingFlag ==
    IF args.artifact_path = "" THEN "--artifact_path"
    ELSE IF args.output_path = "" THEN "--output_path"
    ELSE IF args.github_context.syntax = "empty" THEN "--github_context"
    ELSE IF args.runner_context.syntax = "empty" THEN "--runner_context"
    ELSE ""

\* parseFlags(), then lines 191-192 and 120
ParseFlags ==
    /\ pc = "parseFlags"
    /\ IF MissingFlag # ""
       THEN /\ Exit(1, <<"No value found for required flag: " \o MissingFlag>>)
            /\ UNCHANGED <<parents, passed>>
       ELSE /\ pc' = "ancestors"
            /\ parents' = <<args.artifact_path>>
            /\ passed' = passed \cup {"flags"}
            /\ UNCHANGED <<exitCode, stdout>>
    /\ UNCHANGED <<args, env, fsys, subs, reads, stmt, context, gh, payload, outfile,
                   run, history>>

\* one turn of the loop of lines 121-127; the list is capped at MaxParents,
\* a loop that has reached the cap goes on without end
AncestorStep ==
    /\ pc = "ancestors"
    /\ LET dir == Split(parents[1]).dir
       IN  IF dir = ""
           THEN pc' = "stat" /\ UNCHANGED parents
           ELSE /\ Len(parents) < MaxParents
                /\ parents' = <<Clean(dir)>> \o parents
                /\ UNCHANGED pc
    /\ UNCHANGED <<args, env, fsys, subs, reads, stmt, context, gh, payload, stdout,
                   outfile, exitCode, passed, run, history>>

\* the loop of lines 128-136, and lines 193-196 when it fails
CheckParents ==
    /\ pc = "stat"
    /\ LET err == CheckFrom(fsys, parents, 1)
       IN  IF err # ""
           THEN Exit(1, <<err>>)
           ELSE pc' = "walk" /\ UNCHANGED <<exitCode, stdout>>
    /\ UNCHANGED <<args, env, fsys, parents, subs, reads, stmt, context, gh, payload,
                   outfile, passed, run, history>>

\* lines 138-162, then 193-197
WalkRoot ==
    /\ pc = "walk"
    /\ \E ord \in {"asc", "desc"} :
         LET got == Walk(fsys, ord, args.artifact_path)
         IN  /\ reads' = got.reads
             /\ subs' = got.s
             /\ IF got.err # ""
                THEN /\ Exit(1, <<got.err>>)
                     /\ UNCHANGED <<stmt, passed>>
                ELSE /\ pc' = "predicate"
                     /\ stmt' = [stmt EXCEPT !.Subject = stmt.Subject \o got.s]
                     /\ passed' = passed \cup {"subjects"}
                     /\ UNCHANGED <<exitCode, stdout>>
    /\ UNCHANGED <<args, env, fsys, parents, context, gh, payload, outfile, run, history>>

\* lines 198-214
SetPredicate ==
    /\ pc = "predicate"
    /\ \E now \in Clock : stmt' = [stmt EXCEPT !.Predicate = NewPredicate(now)]
    /\ pc' = "github"
    /\ UNCHANGED <<args, env, fsys, parents, subs, reads, context, gh, payload, stdout,
                   outfile, exitCode, passed, run, history>>

\* lines 216-219
ParseGitHubContext ==
    /\ pc = "github"
    /\ LET got == Unmarshal(args.github_context, GitHubFields, GitHubContextZero)
       IN  /\ context' = [context EXCEPT !.GitHubContext = got.val]
           /\ IF got.err # ""
              THEN Exit(2, <<>>) /\ UNCHANGED passed
              ELSE /\ pc' = "runner"
                   /\ passed' = passed \cup {"github"}
                   /\ UNCHANGED <<exitCode, stdout>>
    /\ UNCHANGED <<args, env, fsys, parents, subs, reads, stmt, gh, payload, outfile,
                   run, history>>

\* lines 220-222
ParseRunnerContext ==
    /\ pc = "runner"
    /\ LET got == Unmarshal(args.runner_context, RunnerFields, RunnerContextZero)
       IN  /\ context' = [context EXCEPT !.RunnerContext = got.val]
           /\ IF got.err # ""
              THEN Exit(2, <<>>) /\ UNCHANGED passed
              ELSE /\ pc' = "fill"
                   /\ passed' = passed \cup {"runner"}
                   /\ UNCHANGED <<exitCode, stdout>>
    /\ UNCHANGED <<args, env, fsys, parents, subs, reads, stmt, gh, payload, outfile,
                   run, history>>

\* lines 223-242
Fill ==
    /\ pc = "fill"
    /\ gh' = context.GitHubContext
    /\ context' = [context EXCEPT !.GitHubContext.Token = ""]
    /\ LET raw == context.GitHubContext.Event
           event == UnmarshalEvent(raw)
       IN  IF event.err # ""
           THEN /\ Exit(2, <<>>)
                /\ stmt' = [stmt EXCEPT
                      !.Predicate.Metadata.BuildInvocationId =
                          RepoURI(gh') \o "/actions/runs/" \o gh'.RunId,
                      !.Predicate.Recipe.EntryPoint = gh'.Workflow]
                /\ UNCHANGED passed
           ELSE /\ pc' = "emit"
                /\ stmt' = [stmt EXCEPT
                      !.Predicate = FillPredicate(stmt.Predicate, gh', raw, event, env)]
                /\ passed' = passed \cup {"event"}
                /\ UNCHANGED <<exitCode, stdout>>
    /\ UNCHANGED <<args, env, fsys, parents, subs, reads, payload, outfile, run, history>>

\* lines 247-248
Emit ==
    /\ pc = "emit"
    /\ payload' = Marshal(stmt)
    /\ stdout' = Append(stdout, "Provenance:" \o payload')
    /\ pc' = "write"
    /\ UNCHANGED <<args, env, fsys, parents, subs, reads, stmt, context, gh, outfile,
                   exitCode, passed, run, history>>

\* lines 249-253: the write succeeds or the output path cannot be opened
WriteOutput ==
    /\ pc = "write"
    /\ \E ok \in BOOLEAN :
         IF ok
         THEN /\ outfile' = Append(outfile, payload)
              /\ Exit(0, <<>>)
         ELSE /\ Exit(1, <<"Failed to write provenance: %s">>)
              /\ UNCHANGED outfile
    /\ UNCHANGED <<args, env, fsys, parents, subs, reads, stmt, context, gh, payload,
                   passed, run, history>>

\* what is kept of an invocation that has ended
Summary ==
    [args |-> args, exitCode |-> exitCode, stmt |-> stmt, stdout |-> stdout,
     outfile |-> outfile]

\* the workflow step is run again: the same command line over the same
\* filesystem and environment, but for the token, which each workflow run
\* is issued anew
Rerun ==
    /\ pc = "exited"
    /\ run < MaxRuns
    /\ run' = run + 1
    /\ history' = <<Summary>>
    /\ \/ UNCHANGED args
       \/ /\ args.github_context.syntax = "ok"
          /\ HasToken(args.github_context)
          /\ \E tok \in Tokens :
               /\ args' = [args EXCEPT !.github_context = WithToken(@, tok)]
               /\ args' # args
    /\ pc' = "parseFlags"
    /\ parents' = <<>>
    /\ subs' = <<>>
    /\ reads' = 0
    /\ stmt' = NewStatement
    /\ context' = AnyContextZero
    /\ gh' = GitHubContextZero
    /\ payload' = ""
    /\ stdout' = <<>>
    /\ outfile' = <<>>
    /\ exitCode' = -1
    /\ passed' = {}
    /\ UNCHANGED <<env, fsys>>

Next ==
    \/ ParseFlags
    \/ AncestorStep
    \/ CheckParents
    \/ WalkRoot
    \/ SetPredicate
    \/ ParseGitHubContext
    \/ ParseRunnerContext
    \/ Fill
    \/ Emit
    \/ WriteOutput
    \/ Rerun

Spec == Init /\ [][Next]_vars

\* ------------------------------------------------------------------------
\* What the claims speak of, read off the inputs
\* ------------------------------------------------------------------------
Succeeded == pc = "exited" /\ exitCode = 0

Prev == history[Len(history)]

\* the last line the process printed, "" when it printed none
LastLine == IF stdout = <<>> THEN "" ELSE stdout[Len(stdout)]

\* subjects() has returned without an error
Enumerated == "subjects" \in passed

RECURSIVE LastValue(_, _, _)
\* the value a JSON object gives key k, none when it has no such member
LastValue(ms, k, none) ==
    IF ms = <<>> THEN none
    ELSE IF ms[Len(ms)].k = k THEN ms[Len(ms)].v
    ELSE LastValue(Front(ms), k, none)

\* the token values of the github context blob
TokenValues ==
    {args.github_context.m[i].v.s :
        i \in {j \in 1..Len(args.github_context.m) :
                  /\ args.github_context.m[j].k = "token"
                  /\ args.github_context.m[j].v.s # ""}}

\* the ancestors of the root path as the path spells them: what precedes
\* each of its slashes
AncestorsOf(root) ==
    {SubSeq(root, 1, i - 1) : i \in {j \in 2..Len(root) : Char(root, j) = "/"}}

\* path names a symbolic link whose target does not exist
Dangling(path) ==
    /\ Lstat(fsys, path).kind = "link"
    /\ Stat(fsys, path).notExist

\* the entries below the directory the root resolves to
RootAt == Resolve(fsys, args.artifact_path, TRUE).at

Tree ==
    {p \in DOMAIN fsys : Len(p) > Len(RootAt) /\ SubSeq(p, 1, Len(RootAt)) = RootAt}

\* the entry the symbolic link at canonical path p leads to
LeadsTo(p) == Resolve(fsys, "/" \o JoinSlash(p), TRUE).at

RelName(p) == JoinSlash(SubSeq(p, Len(RootAt) + 1, Len(p)))

RootIsDir ==
    /\ Resolve(fsys, args.artifact_path, TRUE).err = ""
    /\ fsys[RootAt].kind = "dir"

RootIsFile ==
    /\ Resolve(fsys, args.artifact_path, TRUE).err = ""
    /\ fsys[RootAt].kind = "file"

SubjectNames == {subs[i].name : i \in 1..Len(subs)}

\* the stat loop of subjects() made the run fail
AncestorCheckFailed ==
    /\ pc = "exited"
    /\ "flags" \in passed
    /\ ~Enumerated
    /\ HasPrefix(LastLine, "stat ")

\* a context blob that is JSON and fits the struct it is decoded into
Parses(blob, fields) ==
    /\ blob.syntax = "ok"
    /\ blob.t \in {"obj", "null"}
    /\ \A i \in 1..Len(blob.m) :
          (blob.m[i].k \in DOMAIN fields /\ blob.m[i].k # "event")
              => blob.m[i].v.t \in {"str", "null"}

FlagsGiven ==
    /\ args.artifact_path # ""
    /\ args.output_path # ""
    /\ args.github_context.syntax # "empty"
    /\ args.runner_context.syntax # "empty"

\* ------------------------------------------------------------------------
\* C1  Token redaction
\* ------------------------------------------------------------------------
\* C1: no non-empty token value of the github context blob occurs anywhere
\* in what the process prints or writes to the output path; and a run whose
\* inputs differ from those of the run before only in the token value, and
\* that finishes at the same instant, prints and writes the same document.
C1_TokenRedaction ==
    /\ \A tok \in TokenValues :
          /\ \A i \in 1..Len(stdout) : ~Contains(stdout[i], tok)
          /\ \A i \in 1..Len(outfile) : ~Contains(outfile[i], tok)
    /\ (/\ Succeeded
        /\ history # <<>>
        /\ Prev.exitCode = 0
        /\ [Prev.args EXCEPT !.github_context = WithToken(@, "")]
               = [args EXCEPT !.github_context = WithToken(@, "")]
        /\ Prev.stmt.Predicate.Metadata.BuildFinishedOn
               = stmt.Predicate.Metadata.BuildFinishedOn)
       => /\ outfile = Prev.outfile
          /\ stdout = Prev.stdout

\* a second successful run, under another token than the first, at the
\* same instant
C1_Witness ==
    /\ Succeeded
    /\ TokenValues # {}
    /\ history # <<>>
    /\ Prev.exitCode = 0
    /\ Prev.args # args
    /\ Prev.stmt.Predicate.Metadata.BuildFinishedOn
           = stmt.Predicate.Metadata.BuildFinishedOn

\* ------------------------------------------------------------------------
\* C2  Broken-symlink detection
\* ------------------------------------------------------------------------
\* C2: once the ancestor check of subjects() is over, if some ancestor of
\* the root path is a symbolic link whose target does not exist then the
\* run has failed with the broken-symlink error naming such an ancestor and
\* no file has been read; and if the root and all its ancestors resolve,
\* the ancestor check has not failed.
C2_BrokenSymlinkDetected ==
    (pc \notin {"parseFlags", "ancestors", "stat"}) =>
        /\ (\E a \in AncestorsOf(args.artifact_path) : Dangling(a)) =>
              /\ pc = "exited"
              /\ reads = 0
              /\ \E a \in AncestorsOf(args.artifact_path) :
                    /\ Dangling(a)
                    /\ LastLine = "stat " \o a \o ": broken symlink"
        /\ (\A a \in AncestorsOf(args.artifact_path) \cup {args.artifact_path} :
                Stat(fsys, a).err = "")
              => ~AncestorCheckFailed

\* ------------------------------------------------------------------------
\* C3  No partial provenance
\* ------------------------------------------------------------------------
\* C3: the output path is written at most once, and only when every flag
\* was given, the root could be enumerated and both context blobs parse,
\* after those stages have been passed; a run that lacks one of these ends
\* with a non-zero status and without a write.
C3_NoPartialProvenance ==
    /\ Len(outfile) <= 1
    /\ outfile # <<>> =>
          /\ {"flags", "subjects", "github", "runner"} \subseteq passed
          /\ FlagsGiven
          /\ Stat(fsys, args.artifact_path).err = ""
          /\ Parses(args.github_context, GitHubFields)
          /\ Parses(args.runner_context, RunnerFields)
    /\ (/\ pc = "exited"
        /\ \/ ~FlagsGiven
           \/ Stat(fsys, args.artifact_path).err # ""
           \/ ~Parses(args.github_context, GitHubFields)
           \/ ~Parses(args.runner_context, RunnerFields)
           \/ ~({"flags", "subjects", "github", "runner"} \subseteq passed))
       => exitCode # 0 /\ outfile = <<>>

\* a run that got as far as the runner context and failed on it
C3_Witness ==
    /\ pc = "exited"
    /\ "github" \in passed
    /\ ~Parses(args.runner_context, RunnerFields)
    /\ args.runner_context.syntax # "empty"

\* ------------------------------------------------------------------------
\* C4  Directory enumeration completeness
\* ------------------------------------------------------------------------
\* C4, as claimed: a successful enumeration of a directory returns exactly
\* one subject per regular file of the tree, named by its path relative to
\* the root.
C4_OnePerRegularFile ==
    (Enumerated /\ RootIsDir) =>
        /\ Len(subs) = Cardinality({p \in Tree : fsys[p].kind = "file"})
        /\ SubjectNames = {RelName(p) : p \in {q \in Tree : fsys[q].kind = "file"}}

\* C4, amended: a successful enumeration of a directory returns exactly one
\* subject per entry of the tree that is not a directory, the regular files
\* and the symbolic links (each of which then leads to a regular file),
\* named by the entry's slash-separated path relative to the root and
\* carrying the digest of the contents read through it; no directory is a
\* subject.
C4_OnePerNonDirectory ==
    (Enumerated /\ RootIsDir) =>
        /\ Len(subs) = Cardinality({p \in Tree : fsys[p].kind # "dir"})
        /\ SubjectNames = {RelName(p) : p \in {q \in Tree : fsys[q].kind # "dir"}}
        /\ \A p \in Tree :
              /\ fsys[p].kind = "dir" => RelName(p) \notin SubjectNames
              /\ fsys[p].kind = "file" =>
                    \E i \in 1..Len(subs) :
                        subs[i] = [name |-> RelName(p), digest |-> Sha256Hex(fsys[p].data)]
              /\ fsys[p].kind = "link" =>
                    \E i \in 1..Len(subs) :
                        /\ subs[i].name = RelName(p)
                        /\ fsys[LeadsTo(p)].kind = "file"
                        /\ subs[i].digest = Sha256Hex(fsys[LeadsTo(p)].data)

\* a directory with files two levels down and a symbolic link to a file
C4_Witness ==
    /\ Enumerated
    /\ RootIsDir
    /\ \E p \in Tree : fsys[p].kind = "link"
    /\ \E p \in Tree : fsys[p].kind = "file" /\ Len(p) >= Len(RootAt) + 3

\* ------------------------------------------------------------------------
\* C5  End-to-end scenario
\* ------------------------------------------------------------------------
InScenario ==
    /\ args.artifact_path = "art"
    /\ args.github_context = ScenarioGitHub
    /\ args.runner_context = BaseRunner
    /\ env = "true"

\* the statement the scenario is to produce
ScenarioStatement ==
    /\ Len(stmt.Subject) = 1
    /\ stmt.Subject[1] = [name |-> "out.bin", digest |-> Sha256Hex("known")]
    /\ stmt.Predicate.Materials =
          <<[URI |-> "git+https://github.com/o/r", Digest |-> [sha1 |-> "abc123"]]>>
    /\ stmt.Predicate.Builder.Id
          = "https://github.com/o/r/Attestations/GitHubHostedActions@v1"
    /\ stmt.Predicate.Recipe.EntryPoint = "CI"
    /\ stmt.Predicate.Metadata.BuildInvocationId = "https://github.com/o/r/actions/runs/7"

\* C5: in the end-to-end scenario the run ends with status 0, unless the
\* output path cannot be written, and its statement is the one stated.
C5_EndToEnd ==
    (InScenario /\ pc = "exited") =>
        /\ exitCode # 0 => LastLine = "Failed to write provenance: %s"
        /\ ScenarioStatement

\* ------------------------------------------------------------------------
\* C6  Single-file naming
\* ------------------------------------------------------------------------
\* C6: a successful enumeration of a root that is a single file returns one
\* subject, named by what follows the last slash of the root, which is
\* neither empty nor ".".
C6_SingleFileName ==
    (Enumerated /\ RootIsFile) =>
        /\ Len(subs) = 1
        /\ subs[1].name = Fields(args.artifact_path)[Len(Fields(args.artifact_path))]
        /\ subs[1].name \notin {"", "."}

\* a file named with leading directories has been enumerated
C6_Witness ==
    /\ Enumerated
    /\ RootIsFile
    /\ Len(Fields(args.artifact_path)) >= 2

\* ------------------------------------------------------------------------
\* C7  Builder-identity selection
\* ------------------------------------------------------------------------
RepositoryOf(blob) == LastValue(blob.m, "repository", JStr("")).s

\* C7: in a successful run Builder.id is https://github.com/<repository>
\* followed by the hosted suffix when GITHUB_ACTIONS is "true" and by the
\* self-hosted suffix for any other value; buildInvocationId and the
\* material URI are built on the same prefix; the written document carries
\* that id.
C7_BuilderId ==
    Succeeded =>
        LET prefix == "https://github.com/" \o RepositoryOf(args.github_context)
            id == prefix \o (IF env = "true" THEN "/Attestations/GitHubHostedActions@v1"
                             ELSE "/Attestations/SelfHostedActions@v1")
        IN  /\ stmt.Predicate.Builder.Id = id
            /\ HasPrefix(stmt.Predicate.Metadata.BuildInvocationId, prefix \o "/actions/runs/")
            /\ stmt.Predicate.Materials[1].URI = "git+" \o prefix
            /\ Contains(outfile[1], Quote("builder") \o ":{" \o Quote("id") \o ":" \o Quote(id) \o "}")

\* a successful run under a signal that is neither "true" nor "false"
C7_Witness ==
    /\ Succeeded
    /\ env \notin {"true", "false"}
    /\ RepositoryOf(args.github_context) # ""

\* ------------------------------------------------------------------------
\* C8  Idempotence
\* ------------------------------------------------------------------------
\* C8: a successful run that follows a successful run over the same
\* filesystem, command line and environment has the same statement but for
\* buildFinishedOn, the same subjects in the same order, and, when both
\* finished at the same instant, prints and writes the same bytes.
C8_Idempotent ==
    (Succeeded /\ history # <<>> /\ Prev.exitCode = 0 /\ Prev.args = args) =>
        /\ stmt.Subject = Prev.stmt.Subject
        /\ [stmt EXCEPT !.Predicate.Metadata.BuildFinishedOn = ""]
              = [Prev.stmt EXCEPT !.Predicate.Metadata.BuildFinishedOn = ""]
        /\ (stmt.Predicate.Metadata.BuildFinishedOn
                = Prev.stmt.Predicate.Metadata.BuildFinishedOn)
              => outfile = Prev.outfile /\ stdout = Prev.stdout

\* two successful runs over a directory of three files or more, at the
\* same instant
C8_Witness ==
    /\ Succeeded
    /\ history # <<>>
    /\ Prev.exitCode = 0
    /\ Prev.args = args
    /\ Len(stmt.Subject) >= 3
    /\ stmt.Predicate.Metadata.BuildFinishedOn
           = Prev.stmt.Predicate.Metadata.BuildFinishedOn

\* ------------------------------------------------------------------------
\* C9  Termination of the ancestor loop
\* ------------------------------------------------------------------------
\* C9: the ancestor list holds no path twice and no more paths than the
\* root path has pieces between its slashes, so that the loop that builds
\* it ends.
C9_AncestorsFinite ==
    /\ \A i, j \in 1..Len(parents) : i < j => parents[i] # parents[j]
    /\ parents # <<>> => Len(parents) <= Len(Fields(args.artifact_path))

\* ------------------------------------------------------------------------
\* C10  Arguments pass-through
\* ------------------------------------------------------------------------
EventOf(blob) == LastValue(blob.m, "event", JNil)

InputsOf(ev) == LastValue(ev.m, "inputs", NilRaw)

\* C10: in a successful run whose event payload is a JSON object,
\* Recipe.arguments is the value of the payload's inputs member, written
\* into the document as it stood in the blob, or null when there is no such
\* member; no value of another member of the payload is in the document.
C10_Arguments ==
    (Succeeded /\ EventOf(args.github_context).t = "obj") =>
        LET ev == EventOf(args.github_context)
            inputs == InputsOf(ev)
        IN  /\ stmt.Predicate.Recipe.Arguments = inputs
            /\ Contains(outfile[1],
                   Quote("arguments") \o ":"
                       \o (IF inputs.t = "nil" THEN "null" ELSE RawLeaf(inputs))
                       \o "," \o Quote("environment"))
            /\ \A i \in 1..Len(ev.m) :
                  ev.m[i].k # "inputs" => ~Contains(outfile[1], ev.m[i].v.s)

\* a successful run whose event has inputs after another member
C10_Witness ==
    /\ Succeeded
    /\ EventOf(args.github_context).t = "obj"
    /\ InputsOf(EventOf(args.github_context)).t = "obj"
    /\ EventOf(args.github_context).m[1].k # "inputs"
====
